---- MODULE Spec2Model ----
(***************************************************************************)
(* Stocky: the reward ledger and valuation engine.                         *)
(*                                                                         *)
(* The MySQL tables of server/schema/init.sql are the state.  Quantities   *)
(* (NUMERIC(18,6)) are integers in millionths of a share, currency amounts *)
(* (NUMERIC(18,4)) integers in ten-thousandths of a rupee, times integers  *)
(* in milliseconds since the epoch of the run (a JavaScript Date), dates   *)
(* the number of the UTC day.  A TIMESTAMP column keeps whole seconds: a   *)
(* value written to it is rounded to the second.  JavaScript's doubles     *)
(* are modelled by exact arithmetic; a NUMERIC column rounds what it is    *)
(* given half away from zero.                                              *)
(***************************************************************************)
EXTENDS Integers, Sequences, FiniteSets, TLC

VARIABLES
    reward_events,          \* table reward_events (committed rows)
    user_holdings,          \* table user_holdings (committed rows)
    ledger_entries,         \* table ledger_entries (committed rows)
    stock_prices,           \* table stock_prices (committed rows)
    historical_valuations,  \* table historical_valuations (committed rows)
    now,                    \* the wall clock, in ms
    req,                    \* the POST /reward requests in flight, per slot
    requested,              \* history: what each committed reward was asked and read
    job,                    \* the price jobs: server start and the hourly cron
    snap,                   \* the runs of updateHistoricalValuations
    stale,                  \* what arePricesStale() returned last
    portfolio               \* what GET /portfolio or GET /stats answered last

vars == <<reward_events, user_holdings, ledger_entries, stock_prices,
          historical_valuations, now, req, requested, job, snap, stale,
          portfolio>>

rewardVars == <<reward_events, user_holdings, ledger_entries, req, requested>>

----------------------------------------------------------------------------
(* Bounds of the model.                                                    *)

\* concurrent POST /reward requests
MaxReqs == 2
\* committed reward events
MaxEvents == 2

Reqs == 1..MaxReqs
RewardIds == 1..(MaxEvents + MaxReqs)

----------------------------------------------------------------------------
(* Program constants.                                                      *)

\* RewardModel.checkDuplicateReward: ... < 60 (seconds)
DedupWindowSeconds == 60
\* RewardModel.createLedgerEntries: priceRows[0]?.price || 100
DefaultPrice == 100
\* brokerageRate = 0.0003, sttRate = 0.0001, sebiRate = 0.0001, in 1/10000
BrokerageRateE4 == 3
SttRateE4 == 1
SebiRateE4 == 1
\* gstRate = 0.18, in 1/100
GstRateE2 == 18

\* one rupee in ten-thousandths, one share in millionths, one second in ms
CurrencyScale == 10000
QuantityScale == 1000000
MsPerSecond == 1000

----------------------------------------------------------------------------
(* Reference data: tables users and stock_symbols.                         *)

Users == {"u1", "u2"}

\* rows of stock_symbols (symbol, is_active): two of the seeded symbols, and
\* one an operator added and has switched off (is_active is DEFAULT TRUE and
\* no statement of the server writes it)
stock_symbols == {[symbol |-> "RELIANCE", is_active |-> TRUE],
                  [symbol |-> "ITC", is_active |-> TRUE],
                  [symbol |-> "WIPRO", is_active |-> FALSE]}

KnownSymbols == {s.symbol : s \in stock_symbols}

RewardTypes == {"onboarding", "referral", "trading_milestone", "other"}

----------------------------------------------------------------------------
(* Exact arithmetic.  A product of a quantity (millionths) and a price     *)
(* (ten-thousandths) does not fit the checker's integers, so a value is    *)
(* kept as [hi, lo, den]: (hi + lo / 1000000) / den ten-thousandths of a   *)
(* rupee (or of a share), 0 <= lo < 1000000.                               *)

\* quantity * currentPrice
Product(qm, pm) ==
    LET a == qm \div 1000
        b == qm % 1000
        c == pm \div 1000
        d == pm % 1000
        cross == a * d + b * c
        low == (cross % 1000) * 1000 + b * d
    IN  [hi |-> a * c + cross \div 1000 + low \div 1000000,
         lo |-> low % 1000000,
         den |-> 1]

\* x * (k / m), k a small integer and m a power of ten
Times(x, k, m) ==
    [hi |-> x.hi * k + (x.lo * k) \div 1000000,
     lo |-> (x.lo * k) % 1000000,
     den |-> x.den * m]

\* x + y, both with den = 1
Plus(x, y) ==
    [hi |-> x.hi + y.hi + (x.lo + y.lo) \div 1000000,
     lo |-> (x.lo + y.lo) % 1000000,
     den |-> 1]

Zero == [hi |-> 0, lo |-> 0, den |-> 1]

\* a JavaScript number > 0
IsPositive(x) == x.hi > 0 \/ x.lo > 0

\* What a NUMERIC(18,4) column keeps of x: x rounded to 4 fractional digits,
\* half away from zero.
ToNumeric4(x) ==
    IF x.den = 1
    THEN x.hi + (IF 2 * x.lo >= 1000000 THEN 1 ELSE 0)
    ELSE x.hi \div x.den + (IF 2 * (x.hi % x.den) >= x.den THEN 1 ELSE 0)

\* a quantity (millionths of a share) as a value in ten-thousandths
QuantityValue(qm) == [hi |-> qm, lo |-> 0, den |-> QuantityScale \div CurrencyScale]

----------------------------------------------------------------------------
(* Time.                                                                   *)

\* What a TIMESTAMP column keeps of a time in ms: the nearest whole second.
ToTimestamp(ms) == ((ms + MsPerSecond \div 2) \div MsPerSecond) * MsPerSecond

Abs(x) == IF x < 0 THEN -x ELSE x

\* TIMESTAMPDIFF(SECOND, a, b): the whole seconds of b - a, towards zero
TimestampDiffSeconds(a, b) ==
    IF b >= a THEN (b - a) \div MsPerSecond ELSE -((a - b) \div MsPerSecond)

----------------------------------------------------------------------------
(* RewardModel: the pure parts.                                            *)

\* the mutant: the rows stored last, whatever their price_timestamp
LastStoredQuotes(prices, symbol) ==
    {p \in prices : /\ p.stock_symbol = symbol
                    /\ \A o \in prices : o.stock_symbol = symbol => o.id <= p.id}

\* The rows the query of createLedgerEntries orders first: the quotes of the
\* symbol with the greatest price_timestamp (ORDER BY price_timestamp DESC
\* LIMIT 1 returns any one of them).
LatestQuotes(prices, symbol) ==
    {p \in prices : /\ p.stock_symbol = symbol
                    /\ \A o \in prices : o.stock_symbol = symbol
                                            => o.price_timestamp <= p.price_timestamp}

\* priceRows: the row the query may return, <<price>>, or no row, << >>
PriceRead(prices, symbol) ==
    IF LatestQuotes(prices, symbol) = {}
    THEN {<< >>}
    ELSE {<<p.price>> : p \in LatestQuotes(prices, symbol)}

\* priceRows[0]?.price || 0
CurrentPriceNoDefault(priceRows) ==
    IF priceRows = << >> THEN 0 ELSE priceRows[1]

\* priceRows[0]?.price || 100
CurrentPrice(priceRows) ==
    IF priceRows = << >> THEN DefaultPrice * CurrencyScale ELSE priceRows[1]

Entry(accountType, stockSymbol, amount, entryType) ==
    [accountType |-> accountType, stockSymbol |-> stockSymbol,
     amount |-> amount, entryType |-> entryType]

\* if (fee > 0) entries.push({accountType, amount: fee, entryType: 'credit'})
FeeEntry(accountType, fee) ==
    IF IsPositive(fee) THEN <<Entry(accountType, "null", fee, "credit")>> ELSE <<>>

\* The entries createLedgerEntries builds, in order, amounts as computed.
LedgerEntriesFor(stockSymbol, quantity, currentPrice) ==
    LET totalValue == Product(quantity, currentPrice)
        brokerageFee == Times(totalValue, BrokerageRateE4, CurrencyScale)
        sttFee == Times(totalValue, SttRateE4, CurrencyScale)
        gstFee == Times(brokerageFee, GstRateE2, 100)
        sebiFee == Times(totalValue, SebiRateE4, CurrencyScale)
    IN  <<Entry("stock_units", stockSymbol, QuantityValue(quantity), "debit"),
          Entry("cash_outflow", "null", totalValue, "credit")>>
        \o FeeEntry("brokerage_fee", brokerageFee)
        \o FeeEntry("stt_fee", sttFee)
        \o FeeEntry("gst_fee", gstFee)
        \o FeeEntry("sebi_fee", sebiFee)

\* INSERT INTO ledger_entries: the row as the table keeps it
LedgerRow(rewardId, entry) ==
    [reward_event_id |-> rewardId, account_type |-> entry.accountType,
     stock_symbol |-> entry.stockSymbol, amount |-> ToNumeric4(entry.amount),
     entry_type |-> entry.entryType]

\* the rows of the first k entries
LedgerRows(rewardId, entries, k) ==
    {LedgerRow(rewardId, entries[i]) : i \in 1..k}

\* checkDuplicateReward without ABS: only events before the request count
IsDuplicateForward(events, userId, stockSymbol, quantity, eventTimestamp) ==
    \E e \in events :
        /\ e.user_id = userId
        /\ e.stock_symbol = stockSymbol
        /\ e.quantity = quantity
        /\ TimestampDiffSeconds(e.event_timestamp, eventTimestamp) >= 0
        /\ TimestampDiffSeconds(e.event_timestamp, eventTimestamp)
               < DedupWindowSeconds

\* checkDuplicateReward without `AND quantity = ?`
IsDuplicateAnyQuantity(events, userId, stockSymbol, quantity, eventTimestamp) ==
    \E e \in events :
        /\ e.user_id = userId
        /\ e.stock_symbol = stockSymbol
        /\ Abs(TimestampDiffSeconds(e.event_timestamp, eventTimestamp))
               < DedupWindowSeconds

\* checkDuplicateReward: rows.length > 0
IsDuplicate(events, userId, stockSymbol, quantity, eventTimestamp) ==
    \E e \in events :
        /\ e.user_id = userId
        /\ e.stock_symbol = stockSymbol
        /\ e.quantity = quantity
        /\ Abs(TimestampDiffSeconds(e.event_timestamp, eventTimestamp))
               < DedupWindowSeconds

\* rewardSchema.validate(req.body)
IsValid(input) ==
    /\ input.quantity > 0
    /\ input.rewardType \in RewardTypes

HoldingRows(holdings, userId, stockSymbol) ==
    {h \in holdings : h.user_id = userId /\ h.stock_symbol = stockSymbol}

\* ... ON DUPLICATE KEY UPDATE total_quantity = ?
HoldingAfterOverwrite(holdings, userId, stockSymbol, quantity) == quantity

\* INSERT INTO user_holdings ... ON DUPLICATE KEY UPDATE total_quantity =
\* total_quantity + ?: the total the row has afterwards
HoldingAfter(holdings, userId, stockSymbol, quantity) ==
    IF HoldingRows(holdings, userId, stockSymbol) = {}
    THEN quantity
    ELSE (CHOOSE h \in HoldingRows(holdings, userId, stockSymbol) : TRUE).total_quantity
             + quantity

----------------------------------------------------------------------------
(* The storage layer: InnoDB transactions.  A transaction's writes are     *)
(* its own until it commits; the row of user_holdings it has written is    *)
(* locked until it commits or rolls back.                                  *)

Db == [events |-> reward_events, holdings |-> user_holdings,
       ledger |-> ledger_entries]

SetDb(db) ==
    /\ reward_events' = db.events
    /\ user_holdings' = db.holdings
    /\ ledger_entries' = db.ledger

EventRow(q) ==
    [id |-> q.rewardId, user_id |-> q.userId, stock_symbol |-> q.stockSymbol,
     quantity |-> q.quantity, reward_type |-> q.rewardType,
     event_timestamp |-> ToTimestamp(q.timestamp)]

HoldingRow(q) ==
    [user_id |-> q.userId, stock_symbol |-> q.stockSymbol,
     total_quantity |-> q.txHolding]

\* The writes of request q's transaction so far, with `rows` its ledger rows.
TxWrites(q, rows) ==
    [events |-> IF q.pc \in {"holdings", "ledger"} THEN {EventRow(q)} ELSE {},
     holdings |-> IF q.pc = "ledger" THEN {HoldingRow(q)} ELSE {},
     ledger |-> rows]

\* connection.commit(): the writes become the committed rows
Committed(db, tx) ==
    [events |-> db.events \cup tx.events,
     holdings |-> {h \in db.holdings :
                      \A w \in tx.holdings : ~(/\ h.user_id = w.user_id
                                               /\ h.stock_symbol = w.stock_symbol)}
                  \cup tx.holdings,
     ledger |-> db.ledger \cup tx.ledger]

\* no rollback: the connection goes back to the pool with its transaction
\* open, and the next beginTransaction on it commits the writes
RolledBackKept(db, tx) == Committed(db, tx)

\* connection.rollback(): the writes are gone
RolledBack(db, tx) == db

----------------------------------------------------------------------------
(* POST /reward, one request per slot r.                                   *)

\* resp is the status answered last, at the step `step` of the handler.
\* The client of the slot: `again` says that it repeats a request answered
\* 500, for which the slot keeps what was asked; `retry` says that the
\* request in the slot is such a repeat.
IdleReq ==
    [pc |-> "idle", userId |-> "none", stockSymbol |-> "none", quantity |-> 0,
     rewardType |-> "none", timestamp |-> 0, rewardId |-> 0, txHolding |-> 0,
     resp |-> 0, step |-> "none", again |-> FALSE, retry |-> FALSE]

Respond(r, status) ==
    req' = [req EXCEPT ![r] =
               IF status = 500 /\ req[r].again
               THEN [req[r] EXCEPT !.pc = "idle", !.rewardId = 0, !.txHolding = 0,
                                   !.resp = 500, !.step = req[r].pc,
                                   !.retry = FALSE]
               ELSE [IdleReq EXCEPT !.resp = status, !.step = req[r].pc]]

\* the timestamp of the request: eventTimestamp || new Date()
TimestampOf(input) ==
    IF input.eventTimestamp = << >> THEN now ELSE input.eventTimestamp[1]

\* the client repeats the request that was answered 500
IsRetry(r, input) ==
    /\ req[r].resp = 500
    /\ req[r].again
    /\ req[r].userId = input.userId
    /\ req[r].stockSymbol = input.stockSymbol
    /\ req[r].quantity = input.quantity
    /\ req[r].rewardType = input.rewardType
    /\ req[r].timestamp = TimestampOf(input)

InFlight == {r \in Reqs : req[r].pc # "idle"}

\* uuidv4(): an id no row and no open transaction has
FreshId ==
    LET used == {e.id : e \in reward_events} \cup {req[r].rewardId : r \in InFlight}
    IN  CHOOSE i \in RewardIds : i \notin used /\ \A j \in 1..(i - 1) : j \in used

\* The request arrives: validation, then timestamp = eventTimestamp || new Date()
Submit(r, input) ==
    /\ job["startup"].pc = "done"          \* app.listen() follows the start
    /\ req[r].pc = "idle"
    /\ Cardinality(reward_events) + Cardinality(InFlight) < MaxEvents
    /\ IF IsValid(input)
       THEN req' = [req EXCEPT ![r] =
                [IdleReq EXCEPT !.pc = "check",
                                !.userId = input.userId,
                                !.stockSymbol = input.stockSymbol,
                                !.quantity = input.quantity,
                                !.rewardType = input.rewardType,
                                !.timestamp = TimestampOf(input),
                                !.again = input.again,
                                !.retry = IsRetry(r, input)]]
       ELSE Respond(r, 400)
    /\ UNCHANGED <<reward_events, user_holdings, ledger_entries, stock_prices,
                   historical_valuations, now, requested, job, snap, stale, portfolio>>

\* the mutant: the event is inserted before the check, and stays when the
\* check finds an earlier one
CheckDuplicateAfterInsert(r) ==
    /\ req[r].pc = "check"
    /\ IF IsDuplicate(reward_events, req[r].userId, req[r].stockSymbol,
                      req[r].quantity, req[r].timestamp)
       THEN /\ reward_events' = reward_events \cup
                   {[id |-> FreshId, user_id |-> req[r].userId,
                     stock_symbol |-> req[r].stockSymbol,
                     quantity |-> req[r].quantity,
                     reward_type |-> req[r].rewardType,
                     event_timestamp |-> ToTimestamp(req[r].timestamp)]}
            /\ Respond(r, 409)
       ELSE /\ reward_events' = reward_events
            /\ req' = [req EXCEPT ![r].pc = "insert"]
    /\ UNCHANGED <<user_holdings, ledger_entries, stock_prices,
                   historical_valuations, now, requested, job, snap, stale,
                   portfolio>>

\* await RewardModel.checkDuplicateReward(...): a read of the committed rows
CheckDuplicate(r) ==
    /\ req[r].pc = "check"
    /\ \/ /\ IsDuplicate(reward_events, req[r].userId, req[r].stockSymbol,
                         req[r].quantity, req[r].timestamp)
          /\ Respond(r, 409)
       \/ /\ ~IsDuplicate(reward_events, req[r].userId, req[r].stockSymbol,
                          req[r].quantity, req[r].timestamp)
          /\ req' = [req EXCEPT ![r].pc = "insert"]
       \/ Respond(r, 500)      \* the query fails
    /\ UNCHANGED <<reward_events, user_holdings, ledger_entries, stock_prices,
                   historical_valuations, now, requested, job, snap, stale, portfolio>>

\* the mutant: no beginTransaction, the INSERT INTO reward_events is
\* committed at once
InsertEventAutocommit(r) ==
    /\ req[r].pc = "insert"
    /\ \/ /\ req[r].userId \in Users
          /\ req[r].stockSymbol \in KnownSymbols
          /\ req' = [req EXCEPT ![r].pc = "holdings", ![r].rewardId = FreshId]
          /\ reward_events' = reward_events \cup
                 {[id |-> FreshId, user_id |-> req[r].userId,
                   stock_symbol |-> req[r].stockSymbol,
                   quantity |-> req[r].quantity,
                   reward_type |-> req[r].rewardType,
                   event_timestamp |-> ToTimestamp(req[r].timestamp)]}
          /\ UNCHANGED <<user_holdings, ledger_entries>>
       \/ /\ SetDb(RolledBack(Db, TxWrites(req[r], {})))
          /\ Respond(r, 500)
    /\ UNCHANGED <<stock_prices, historical_valuations, now, requested, job, snap,
                   stale, portfolio>>

\* createReward: getConnection, beginTransaction, INSERT INTO reward_events.
\* The foreign keys of reward_events refuse an unknown user or symbol.
InsertEvent(r) ==
    /\ req[r].pc = "insert"
    /\ \/ /\ req[r].userId \in Users
          /\ req[r].stockSymbol \in KnownSymbols
          /\ req' = [req EXCEPT ![r].pc = "holdings", ![r].rewardId = FreshId]
          /\ UNCHANGED <<reward_events, user_holdings, ledger_entries>>
       \/ /\ SetDb(RolledBack(Db, TxWrites(req[r], {})))
          /\ Respond(r, 500)
    /\ UNCHANGED <<stock_prices, historical_valuations, now, requested, job, snap,
                   stale, portfolio>>

\* no row lock: a read of the total, then a write of the sum
HoldingRowNeverLocked(r) == TRUE

\* the mutant: the run reads the holdings FOR UPDATE in one transaction
RunLocksHoldings(k) ==
    IF snap[k].pc \in {"read", "upsert"}
    THEN {[user_id |-> h.user_id, stock_symbol |-> h.stock_symbol] :
             h \in user_holdings}
    ELSE {}

\* The rows of user_holdings that run k of updateHistoricalValuations keeps
\* locked from one statement to the next: it begins no transaction, so each
\* statement commits by itself; its SELECTs are plain reads and its upsert
\* writes historical_valuations only.
RunLocks(k) == {}

\* No other open transaction has written the row (userId, stockSymbol), and
\* no valuation run keeps it locked.
HoldingRowFree(r) ==
    /\ \A o \in Reqs \ {r} :
          ~(/\ req[o].pc = "ledger"
            /\ req[o].userId = req[r].userId
            /\ req[o].stockSymbol = req[r].stockSymbol)
    /\ \A k \in DOMAIN snap :
          [user_id |-> req[r].userId, stock_symbol |-> req[r].stockSymbol]
              \notin RunLocks(k)

\* createReward: INSERT INTO user_holdings ... ON DUPLICATE KEY UPDATE, which
\* waits for the row's lock and adds to its committed total.
UpdateHoldings(r) ==
    /\ req[r].pc = "holdings"
    /\ \/ /\ HoldingRowFree(r)
          /\ req' = [req EXCEPT ![r].pc = "ledger",
                                ![r].txHolding =
                                    HoldingAfter(user_holdings, req[r].userId,
                                                 req[r].stockSymbol, req[r].quantity)]
          /\ UNCHANGED <<reward_events, user_holdings, ledger_entries>>
       \/ /\ SetDb(RolledBack(Db, TxWrites(req[r], {})))
          /\ Respond(r, 500)
    /\ UNCHANGED <<stock_prices, historical_valuations, now, requested, job, snap,
                   stale, portfolio>>

\* createReward: createLedgerEntries (the price read, the entries, their
\* inserts) and connection.commit(); any failure rolls back.
LedgerAndCommit(r) ==
    /\ req[r].pc = "ledger"
    /\ \E priceRows \in PriceRead(stock_prices, req[r].stockSymbol) :
         LET entries == LedgerEntriesFor(req[r].stockSymbol, req[r].quantity,
                                         CurrentPrice(priceRows))
         IN  \/ /\ SetDb(Committed(Db, TxWrites(req[r],
                              LedgerRows(req[r].rewardId, entries, Len(entries)))))
                /\ requested' = requested \cup
                      {[id |-> req[r].rewardId, timestamp |-> req[r].timestamp,
                        priceRows |-> priceRows, retry |-> req[r].retry,
                        waiting |-> {req[o].rewardId : o \in
                            {x \in Reqs : /\ req[x].pc = "holdings"
                                          /\ req[x].userId = req[r].userId
                                          /\ req[x].stockSymbol = req[r].stockSymbol}}]}
                /\ Respond(r, 201)
             \/ \E k \in 0..Len(entries) :
                  \* the price read (k = 0), the insert of entry k + 1 or the
                  \* commit (k = Len(entries)) fails
                  /\ SetDb(RolledBack(Db, TxWrites(req[r],
                                LedgerRows(req[r].rewardId, entries, k))))
                  /\ requested' = requested
                  /\ Respond(r, 500)
    /\ UNCHANGED <<stock_prices, historical_valuations, now, job, snap, stale, portfolio>>

----------------------------------------------------------------------------
(* StockPriceService.                                                      *)

\* the symbols fetchStockPrices quotes: of its list, those of the model
FeedSymbols == {"RELIANCE", "ITC"}

\* getBasePrice(symbol), in ten-thousandths
BasePrice(symbol) == IF symbol = "RELIANCE" THEN 2500 * CurrencyScale
                                            ELSE 450 * CurrencyScale

\* Math.round(price * 100) / 100 of basePrice +-5%: the prices tried
MovingPrices(symbol) ==
    IF symbol = "RELIANCE" THEN {BasePrice(symbol), 2400 * CurrencyScale}
                           ELSE {BasePrice(symbol)}
SteadyPrices(symbol) == {BasePrice(symbol)}

\* fetchStockPrices(): one quote per symbol, all stamped new Date(); the
\* feed quotes symbol s at a price of feed[s]
Fetched(feed) ==
    {{[symbol |-> s, price |-> f[s], timestamp |-> now] : s \in FeedSymbols} :
        f \in {g \in [FeedSymbols -> UNION {feed[s] : s \in FeedSymbols}] :
                  \A s \in FeedSymbols : g[s] \in feed[s]}}

\* uuidv4() for the i-th row of a batch: rows of stock_prices are never removed
PriceId(prices, i) == Cardinality(prices) + i

RECURSIVE PriceRowsFrom(_, _, _)
\* the rows storeStockPrices inserts for `quotes`.  `observed` is no column:
\* it is the data.timestamp the statement was given, which the TIMESTAMP
\* column keeps to the second.
PriceRowsFrom(prices, quotes, i) ==
    IF quotes = {} THEN {}
    ELSE LET q == CHOOSE x \in quotes : TRUE
         IN  {[id |-> PriceId(prices, i), stock_symbol |-> q.symbol,
               price |-> q.price, price_timestamp |-> ToTimestamp(q.timestamp),
               observed |-> q.timestamp]}
             \cup PriceRowsFrom(prices, quotes \ {q}, i + 1)

\* the mutant: only the first quote of the batch is inserted
StoredFirstOnly(prices, quotes) ==
    prices \cup PriceRowsFrom(prices, {CHOOSE q \in quotes : TRUE}, 1)

\* the mutant: a batch replaces the rows of its symbols
StoredReplacing(prices, quotes) ==
    {p \in prices : \A q \in quotes : q.symbol # p.stock_symbol}
        \cup PriceRowsFrom(prices, quotes, 1)

\* storeStockPrices(prices), committed: one row per quote, in one transaction
StoredPrices(prices, quotes) == prices \cup PriceRowsFrom(prices, quotes, 1)

\* the mutant: some stored row of each symbol, the latest or not
CachedAny(prices) ==
    {quotes \in SUBSET {[symbol |-> p.stock_symbol, price |-> p.price,
                         timestamp |-> p.price_timestamp] : p \in prices} :
        \A s \in KnownSymbols :
            Cardinality({q \in quotes : q.symbol = s})
                = (IF LatestQuotes(prices, s) = {} THEN 0 ELSE 1)}

\* getLatestPrices() reduced to an object keyed by symbol: for each symbol
\* with a stored quote one of its rows of greatest price_timestamp
CachedPrices(prices) ==
    {quotes \in SUBSET {[symbol |-> p.stock_symbol, price |-> p.price,
                         timestamp |-> p.price_timestamp] : p \in prices} :
        /\ \A s \in KnownSymbols :
              Cardinality({q \in quotes : q.symbol = s})
                  = (IF LatestQuotes(prices, s) = {} THEN 0 ELSE 1)
        /\ \A q \in quotes :
              \E p \in LatestQuotes(prices, q.symbol) :
                  p.price = q.price /\ p.price_timestamp = q.timestamp}

\* 60 * 60 * 1000
OneHourMs == 60 * 60 * MsPerSecond

\* arePricesStale() with latestTimestamp <= oneHourAgo
ArePricesStaleInclusive(prices, clock) ==
    \/ prices = {}
    \/ \A p \in prices : p.price_timestamp <= clock - OneHourMs

\* arePricesStale()
ArePricesStale(prices, clock) ==
    IF prices = {}
    THEN TRUE
    ELSE LET latestTimestamp ==
                 CHOOSE t \in {p.price_timestamp : p \in prices} :
                     \A p \in prices : p.price_timestamp <= t
             oneHourAgo == clock - OneHourMs
         IN  latestTimestamp < oneHourAgo

\* new Date().toISOString().split('T')[0], as the number of the UTC day
DateOf(ms) == ms \div (24 * OneHourMs)

\* the price a valuation query joins to each symbol: sp.rn = 1
PriceViews(prices) ==
    {f \in [KnownSymbols -> UNION {PriceRead(prices, s) : s \in KnownSymbols}] :
        \A s \in KnownSymbols : f[s] \in PriceRead(prices, s)}

RECURSIVE SumValue(_, _)
\* holdings.reduce((sum, h) => sum + h.total_quantity * (h.price || 0), 0)
SumValue(rows, view) ==
    IF rows = {} THEN Zero
    ELSE LET h == CHOOSE x \in rows : TRUE
         IN  Plus(IF view[h.stock_symbol] = << >> THEN Zero
                  ELSE Product(h.total_quantity, view[h.stock_symbol][1]),
                  SumValue(rows \ {h}, view))

\* SELECT DISTINCT user_id FROM user_holdings WHERE total_quantity > 0
UsersWithHoldings(holdings) == {h.user_id : h \in {x \in holdings : x.total_quantity > 0}}

\* the holdings query without `uh.user_id = ?`
TotalValueOfAnyUser(holdings, view, userId) ==
    SumValue({h \in holdings : h.total_quantity > 0}, view)

\* the holdings query of updateHistoricalValuations and its reduce
TotalValueOf(holdings, view, userId) ==
    SumValue({h \in holdings : h.user_id = userId /\ h.total_quantity > 0}, view)

\* the mutant: historical_valuations without unique_user_date
ValuationRowsNoKey(valuations, userId, date) == {}

ValuationRows(valuations, userId, date) ==
    {v \in valuations : v.user_id = userId /\ v.valuation_date = date}

\* uuidv4()
ValuationId(valuations) == Cardinality(valuations) + 1

\* a plain INSERT INTO historical_valuations, no unique key
Inserted(valuations, userId, date, totalValue) ==
    valuations \cup {[id |-> Cardinality(valuations) + 1, user_id |-> userId,
                      valuation_date |-> date,
                      total_inr_value |-> ToNumeric4(totalValue), writes |-> 1]}

\* the mutant: the unique key is the user alone, the row of any date is
\* overwritten
UpsertedAnyDate(valuations, userId, date, totalValue) ==
    IF \A v \in valuations : v.user_id # userId
    THEN valuations \cup {[id |-> ValuationId(valuations), user_id |-> userId,
                           valuation_date |-> date,
                           total_inr_value |-> ToNumeric4(totalValue),
                           writes |-> 1]}
    ELSE {IF v.user_id = userId
          THEN [v EXCEPT !.total_inr_value = ToNumeric4(totalValue), !.writes = 2]
          ELSE v : v \in valuations}

\* INSERT INTO historical_valuations ... ON DUPLICATE KEY UPDATE
\* total_inr_value = ?  (unique_user_date).  `writes` is no column: it is the
\* history of how many statements have written the row (1, or 2 for more).
Upserted(valuations, userId, date, totalValue) ==
    IF ValuationRows(valuations, userId, date) = {}
    THEN valuations \cup {[id |-> ValuationId(valuations), user_id |-> userId,
                           valuation_date |-> date,
                           total_inr_value |-> ToNumeric4(totalValue),
                           writes |-> 1]}
    ELSE {IF v \in ValuationRows(valuations, userId, date)
          THEN [v EXCEPT !.total_inr_value = ToNumeric4(totalValue), !.writes = 2]
          ELSE v : v \in valuations}

----------------------------------------------------------------------------
(* The price jobs: startServer's initial fetch and the hourly cron.        *)

\* rows of stock_prices
MaxPriceRows == 6

Jobs == {"startup", "hourly"}
Runs == {"hourly", "daily"}

\* a job's position: `prices` is what getPricesWithFallback returned,
\* `fetched` what fetchStockPrices returned to it, `error` what it threw;
\* of a storeStockPrices taken statement by statement, `tx` are the quotes
\* its open transaction has inserted and `left` those it has yet to insert
IdleJob == [pc |-> "idle", prices |-> {}, fetched |-> {}, error |-> "none",
            tx |-> {}, left |-> {}]
IdleRun == [pc |-> "idle", todo |-> {}, user |-> "none", today |-> 0,
            totalValue |-> Zero]

\* the mutant: the valuations follow the price steps however they ended
JobEndsThenSnapshots(j, ok) ==
    IF j = "startup"
    THEN /\ job' = [job EXCEPT ![j] = [IdleJob EXCEPT !.pc = "done"]]
         /\ snap' = snap
    ELSE /\ job' = [job EXCEPT ![j] = [IdleJob EXCEPT !.pc = "snapshot"]]
         /\ snap' = [snap EXCEPT ![j] = [IdleRun EXCEPT !.pc = "users"]]

\* where a job goes when its price steps are over
JobEnds(j, ok) ==
    IF j = "startup"
    THEN /\ job' = [job EXCEPT ![j] = [IdleJob EXCEPT !.pc = "done"]]
         /\ snap' = snap
    ELSE IF ok
    THEN /\ job' = [job EXCEPT ![j] = [IdleJob EXCEPT !.pc = "snapshot"]]
         /\ snap' = [snap EXCEPT ![j] = [IdleRun EXCEPT !.pc = "users"]]
    ELSE /\ job' = [job EXCEPT ![j] = IdleJob]
         /\ snap' = snap

\* the mutant: the handler starts the valuations along with the price steps
HourlyFireWithValuations ==
    /\ job["hourly"].pc = "idle"
    /\ snap["hourly"].pc = "idle"
    /\ job' = [job EXCEPT !["hourly"].pc = "fetch"]
    /\ snap' = [snap EXCEPT !["hourly"] = [IdleRun EXCEPT !.pc = "users"]]
    /\ UNCHANGED <<rewardVars, stock_prices, historical_valuations, now, stale, portfolio>>

\* cron.schedule('0 * * * *', ...) fires
HourlyFire ==
    /\ job["hourly"].pc = "idle"
    /\ job' = [job EXCEPT !["hourly"].pc = "fetch"]
    /\ UNCHANGED <<rewardVars, stock_prices, historical_valuations, now, snap, stale, portfolio>>

\* getPricesWithFallback(), the try: fetchStockPrices, storeStockPrices
FetchAndStore(j, feed) ==
    /\ job[j].pc = "fetch"
    /\ \/ \E quotes \in Fetched(feed) :
            /\ Cardinality(stock_prices) + Cardinality(quotes) <= MaxPriceRows
            /\ stock_prices' = StoredPrices(stock_prices, quotes)
            /\ job' = [job EXCEPT ![j].pc = "store", ![j].prices = quotes,
                                  ![j].fetched = quotes]
       \/ \E quotes \in Fetched(feed) :    \* the store fails and rolls back
            /\ stock_prices' = stock_prices
            /\ job' = [job EXCEPT ![j].pc = "fallback", ![j].fetched = quotes]
       \/ /\ stock_prices' = stock_prices   \* the fetch throws
          /\ job' = [job EXCEPT ![j].pc = "fallback"]
    /\ UNCHANGED <<rewardVars, historical_valuations, now, snap, stale, portfolio>>

\* the mutant: the cached rows are returned whether there are any or not
HasCachedAlways(prices) == TRUE

\* cachedPrices.length > 0
HasCached(prices) == prices # {}

\* the call throws: the caller's catch is next
Throws(j, error) ==
    job' = [job EXCEPT ![j] = [IdleJob EXCEPT !.pc = "failed", !.error = error]]

\* getPricesWithFallback(), the catch: getLatestPrices or the error
Fallback(j) ==
    /\ job[j].pc = "fallback"
    /\ \/ IF HasCached(stock_prices)
          THEN \E quotes \in CachedPrices(stock_prices) :
                  job' = [job EXCEPT ![j].pc = "store", ![j].prices = quotes,
                                     ![j].fetched = {}]
          ELSE Throws(j, "No stock price data available")
       \/ Throws(j, "query failed")
    /\ UNCHANGED <<rewardVars, stock_prices, historical_valuations, now, snap, stale, portfolio>>

\* the caller's own storeStockPrices(prices) of what the fallback returned
StoreAgain(j) ==
    /\ job[j].pc = "store"
    /\ \/ /\ Cardinality(stock_prices) + Cardinality(job[j].prices) <= MaxPriceRows
          /\ stock_prices' = StoredPrices(stock_prices, job[j].prices)
          /\ JobEnds(j, TRUE)
       \/ /\ stock_prices' = stock_prices    \* the store fails and rolls back
          /\ Throws(j, "query failed")
          /\ snap' = snap
    /\ UNCHANGED <<rewardVars, historical_valuations, now, stale, portfolio>>

\* the mutant: no catch around the handler, the rejection ends the process
Uncaught(j) ==
    /\ job[j].pc = "failed"
    /\ job' = [x \in Jobs |-> [IdleJob EXCEPT !.pc = "crashed"]]
    /\ snap' = snap
    /\ UNCHANGED <<rewardVars, stock_prices, historical_valuations, now, stale, portfolio>>

\* the caller's catch: the hourly job logs and skips the valuations, the
\* server start logs and goes on
Caught(j) ==
    /\ job[j].pc = "failed"
    /\ JobEnds(j, FALSE)
    /\ UNCHANGED <<rewardVars, stock_prices, historical_valuations, now, stale, portfolio>>

----------------------------------------------------------------------------
(* storeStockPrices statement by statement: beginTransaction, one INSERT   *)
(* per quote, commit; a reader on another connection sees stock_prices,    *)
(* the committed rows.  Position "insert" is the call made by              *)
(* getPricesWithFallback, "insert2" the caller's own.                      *)

\* getPricesWithFallback(), the try: fetchStockPrices, then the store begins
FetchStockPrices(j, feed) ==
    /\ job[j].pc = "fetch"
    /\ \/ \E quotes \in Fetched(feed) :
            job' = [job EXCEPT ![j].pc = "insert", ![j].prices = quotes,
                               ![j].fetched = quotes, ![j].left = quotes]
       \/ job' = [job EXCEPT ![j].pc = "fallback"]    \* the fetch throws
    /\ UNCHANGED <<rewardVars, stock_prices, historical_valuations, now, snap, stale,
                   portfolio>>

\* the caller's own storeStockPrices(prices) begins
StoreBegin(j) ==
    /\ job[j].pc = "store"
    /\ job' = [job EXCEPT ![j].pc = "insert2", ![j].left = job[j].prices]
    /\ UNCHANGED <<rewardVars, stock_prices, historical_valuations, now, snap, stale,
                   portfolio>>

\* catch: connection.rollback(), throw error
StoreFails(j) ==
    IF job[j].pc = "insert"
    THEN job' = [job EXCEPT ![j].pc = "fallback", ![j].prices = {},
                            ![j].tx = {}, ![j].left = {}]
    ELSE Throws(j, "query failed")

\* the mutant: no transaction, each INSERT is committed as it is executed
StoreInsertAutocommit(j) ==
    /\ job[j].pc \in {"insert", "insert2"}
    /\ job[j].left # {}
    /\ \/ LET q == CHOOSE x \in job[j].left : TRUE
          IN  /\ Cardinality(stock_prices) < MaxPriceRows
              /\ stock_prices' = StoredPrices(stock_prices, {q})
              /\ job' = [job EXCEPT ![j].left = job[j].left \ {q}]
       \/ stock_prices' = stock_prices /\ StoreFails(j)
    /\ UNCHANGED <<rewardVars, historical_valuations, now, snap, stale, portfolio>>

\* for (const [symbol, data] of Object.entries(prices)): one INSERT
StoreInsert(j) ==
    /\ job[j].pc \in {"insert", "insert2"}
    /\ job[j].left # {}
    /\ \/ LET q == CHOOSE x \in job[j].left : TRUE
          IN  job' = [job EXCEPT ![j].tx = job[j].tx \cup {q},
                                 ![j].left = job[j].left \ {q}]
       \/ StoreFails(j)
    /\ UNCHANGED <<rewardVars, stock_prices, historical_valuations, now, snap, stale,
                   portfolio>>

\* connection.commit(): the inserted rows become visible together
StoreCommit(j) ==
    /\ job[j].pc \in {"insert", "insert2"}
    /\ job[j].left = {}
    /\ \/ /\ Cardinality(stock_prices) + Cardinality(job[j].tx) <= MaxPriceRows
          /\ stock_prices' = StoredPrices(stock_prices, job[j].tx)
          /\ IF job[j].pc = "insert"
             THEN /\ job' = [job EXCEPT ![j].pc = "store", ![j].tx = {}]
                  /\ snap' = snap
             ELSE JobEnds(j, TRUE)
       \/ /\ stock_prices' = stock_prices     \* the commit fails
          /\ StoreFails(j)
          /\ snap' = snap
    /\ UNCHANGED <<rewardVars, historical_valuations, now, stale, portfolio>>

----------------------------------------------------------------------------
(* updateHistoricalValuations, run k: the hourly job's or the daily one's. *)

\* a run ends: the hourly job's handler returns with it
RunEnds(k) ==
    /\ snap' = [snap EXCEPT ![k] = IdleRun]
    /\ job' = IF k = "hourly" THEN [job EXCEPT !["hourly"] = IdleJob] ELSE job

\* cron.schedule('0 0 * * *', ...) fires
DailyFire ==
    /\ snap["daily"].pc = "idle"
    /\ snap' = [snap EXCEPT !["daily"].pc = "users"]
    /\ UNCHANGED <<rewardVars, stock_prices, historical_valuations, now, job, stale, portfolio>>

\* the user query, then today = new Date()...
SnapUsers(k) ==
    /\ snap[k].pc = "users"
    /\ \/ IF UsersWithHoldings(user_holdings) # {}
          THEN /\ snap' = [snap EXCEPT ![k].pc = "read",
                                       ![k].todo = UsersWithHoldings(user_holdings),
                                       ![k].today = DateOf(now)]
               /\ job' = job
          ELSE RunEnds(k)            \* no user: the loop runs no turn
       \/ RunEnds(k)                  \* the query fails
    /\ UNCHANGED <<rewardVars, stock_prices, historical_valuations, now, stale, portfolio>>

\* for (const user of users): the holdings query and the reduce
SnapRead(k) ==
    /\ snap[k].pc = "read"
    /\ \/ \E u \in snap[k].todo, view \in PriceViews(stock_prices) :
            /\ snap' = [snap EXCEPT ![k].pc = "upsert", ![k].user = u,
                           ![k].totalValue = TotalValueOf(user_holdings, view, u)]
            /\ job' = job
       \/ RunEnds(k)                  \* the query fails
    /\ UNCHANGED <<rewardVars, stock_prices, historical_valuations, now, stale, portfolio>>

\* the upsert of the user's valuation, then the next user
SnapUpsert(k) ==
    /\ snap[k].pc = "upsert"
    /\ \/ /\ historical_valuations' =
                 Upserted(historical_valuations, snap[k].user, snap[k].today,
                          snap[k].totalValue)
          /\ IF snap[k].todo = {snap[k].user}
             THEN RunEnds(k)
             ELSE /\ snap' = [snap EXCEPT ![k].pc = "read",
                                          ![k].todo = snap[k].todo \ {snap[k].user},
                                          ![k].user = "none",
                                          ![k].totalValue = Zero]
                  /\ job' = job
       \/ /\ historical_valuations' = historical_valuations   \* the upsert fails
          /\ RunEnds(k)
    /\ UNCHANGED <<rewardVars, stock_prices, now, stale, portfolio>>

----------------------------------------------------------------------------
(* arePricesStale() and the clock.                                         *)

CheckStale ==
    /\ stale' = [called |-> TRUE, result |-> ArePricesStale(stock_prices, now),
                 at |-> now]
    /\ stale # stale'
    /\ UNCHANGED <<rewardVars, stock_prices, historical_valuations, now, job, snap, portfolio>>

\* time passes
Tick(points) ==
    /\ \E t \in points : t > now /\ now' = t
    /\ UNCHANGED <<rewardVars, stock_prices, historical_valuations, job, snap, stale, portfolio>>

----------------------------------------------------------------------------
(* The read routes GET /portfolio/:userId and GET /stats/:userId.  A       *)
(* DECIMAL column reaches JavaScript as a string, or as a number when the  *)
(* pool is created with decimalNumbers; a JavaScript value is kept as its  *)
(* type and its text: the decimal values it is written with, in order,     *)
(* each a DECIMAL string ("3750.0000000000") or the digits of a number.    *)

NoResponse == [route |-> "none", status |-> 0, userId |-> "none", lines |-> {},
               totalValue |-> [value |-> Zero, beyond |-> << >>]]

\* the rows of the portfolio query for the user: uh.total_quantity > 0
PortfolioRows(holdings, userId) ==
    {h \in holdings : h.user_id = userId /\ h.total_quantity > 0}

\* (uh.total_quantity * sp.price): NULL without a joined price
RowValue(h, view) ==
    IF view[h.stock_symbol] = << >> THEN << >>
    ELSE <<Product(h.total_quantity, view[h.stock_symbol][1])>>

\* portfolio.map(holding => ({stockSymbol, quantity, currentPrice:
\* parseFloat(price || 0), currentInrValue: parseFloat(value || 0)}))
Line(h, view) ==
    [stockSymbol |-> h.stock_symbol,
     quantity |-> h.total_quantity,
     currentPrice |-> IF view[h.stock_symbol] = << >> THEN 0
                      ELSE view[h.stock_symbol][1],
     currentInrValue |-> IF RowValue(h, view) = << >> THEN Zero
                         ELSE RowValue(h, view)[1]]

JsNumber(x) == [type |-> "number", text |-> <<[value |-> x, decimal |-> FALSE]>>]
JsString(x) == [type |-> "string", text |-> <<[value |-> x, decimal |-> TRUE]>>]

\* holding.current_value || 0: NULL gives the number 0, a string stays
OrZero(value, asStrings) ==
    IF value = << >> THEN JsNumber(Zero)
    ELSE IF asStrings THEN JsString(value[1]) ELSE JsNumber(value[1])

\* sum + term: the sum of two numbers, else the two texts one after the other
JsPlus(a, b) ==
    IF a.type = "number" /\ b.type = "number"
    THEN JsNumber(Plus(a.text[1].value, b.text[1].value))
    ELSE [type |-> "string", text |-> a.text \o b.text]

\* parseFloat(x): a number is itself; of a string the longest prefix that is
\* a number, which is the first DECIMAL string of the text (the numbers
\* before it are "0") with, beyond its last digit, the whole rupees of what
\* follows up to the next decimal point.
ParseFloat(x) ==
    IF x.type = "number"
    THEN [value |-> x.text[1].value, beyond |-> << >>]
    ELSE LET first == CHOOSE i \in 1..Len(x.text) :
                          /\ x.text[i].decimal
                          /\ \A j \in 1..(i - 1) : ~x.text[j].decimal
             later == {i \in (first + 1)..Len(x.text) : x.text[i].decimal}
             last == IF later = {} THEN Len(x.text)
                     ELSE CHOOSE i \in later : \A j \in later : i <= j
         IN  [value |-> x.text[first].value,
              beyond |-> [i \in 1..(last - first) |->
                             x.text[first + i].value.hi \div CurrencyScale]]

RECURSIVE Reduced(_, _, _, _)
\* portfolioValue.reduce((sum, holding) => sum + (holding.current_value || 0), 0)
\* from row i on, the rows in the order `rows`
Reduced(rows, view, asStrings, i) ==
    IF i = 0 THEN JsNumber(Zero)
    ELSE JsPlus(Reduced(rows, view, asStrings, i - 1),
                OrZero(RowValue(rows[i], view), asStrings))

\* the orders a query without ORDER BY may return the rows in
Orders(rows) ==
    {o \in [1..Cardinality(rows) -> rows] :
        \A i, j \in 1..Cardinality(rows) : i # j => o[i] # o[j]}

\* GET /portfolio/:userId
GetPortfolio(u) ==
    /\ \/ \E view \in PriceViews(stock_prices) :
            portfolio' =
                [route |-> "portfolio", status |-> 200, userId |-> u,
                 lines |-> {Line(h, view) : h \in PortfolioRows(user_holdings, u)},
                 totalValue |-> [value |-> TotalValueOf(user_holdings, view, u),
                                 beyond |-> << >>]]
       \/ portfolio' = [NoResponse EXCEPT !.route = "portfolio", !.status = 500,
                                          !.userId = u]
    /\ portfolio' # portfolio
    /\ UNCHANGED <<rewardVars, stock_prices, historical_valuations, now, job, snap,
                   stale>>

\* GET /stats/:userId: getUserStats and the route's portfolio part
GetStats(u) ==
    /\ \/ \E view \in PriceViews(stock_prices), asStrings \in BOOLEAN,
             rows \in Orders(PortfolioRows(user_holdings, u)) :
            portfolio' =
                [route |-> "stats", status |-> 200, userId |-> u,
                 lines |-> {Line(h, view) : h \in PortfolioRows(user_holdings, u)},
                 totalValue |->
                     ParseFloat(Reduced(rows, view, asStrings, Len(rows)))]
       \/ portfolio' = [NoResponse EXCEPT !.route = "stats", !.status = 500,
                                          !.userId = u]
    /\ portfolio' # portfolio
    /\ UNCHANGED <<rewardVars, stock_prices, historical_valuations, now, job, snap,
                   stale>>

----------------------------------------------------------------------------
(* The system.                                                             *)

\* the request bodies tried
RewardInputs ==
    [userId : {"u1"}, stockSymbol : {"RELIANCE"}, quantity : {1500000, 1},
     rewardType : {"onboarding"}, eventTimestamp : {<< >>, <<400>>, <<60300>>},
     again : {FALSE}]
    \cup
    [userId : {"u2"}, stockSymbol : {"ITC"}, quantity : {1500000},
     rewardType : {"onboarding"}, eventTimestamp : {<< >>}, again : {FALSE}]
    \cup
    [userId : {"u1"}, stockSymbol : {"RELIANCE"}, quantity : {0},
     rewardType : {"onboarding"}, eventTimestamp : {<< >>}, again : {FALSE}]
    \cup
    \* a symbol switched off, and one stock_symbols does not have
    [userId : {"u1"}, stockSymbol : {"WIPRO", "NOSUCH"}, quantity : {1500000},
     rewardType : {"onboarding"}, eventTimestamp : {<< >>}, again : {FALSE}]

\* the request bodies tried while the jobs run
JobRewardInputs ==
    [userId : {"u1", "u2"}, stockSymbol : {"RELIANCE"}, quantity : {1500000},
     rewardType : {"onboarding"}, eventTimestamp : {<< >>}, again : {FALSE}]

\* the times the clock shows: the dedup window, and the staleness threshold
\* and the day for the jobs
ClockPoints == {0, 60 * MsPerSecond}
JobClockPoints == {0, 24 * OneHourMs}
StaleClockPoints == {0, 59 * 60 * MsPerSecond, OneHourMs, 61 * 60 * MsPerSecond}

\* committed reward events while the jobs run
MaxJobEvents == 2

Init ==
    /\ reward_events = {}
    /\ user_holdings = {}
    /\ ledger_entries = {}
    /\ stock_prices = {}
    /\ historical_valuations = {}
    /\ now = 0
    /\ req = [r \in Reqs |-> IdleReq]
    /\ requested = {}
    /\ job = [j \in Jobs |-> IF j = "startup" THEN [IdleJob EXCEPT !.pc = "fetch"]
                                              ELSE IdleJob]
    /\ snap = [k \in Runs |-> IdleRun]
    /\ stale = [called |-> FALSE, result |-> FALSE, at |-> 0]
    /\ portfolio = NoResponse

MovingFeed == [s \in FeedSymbols |-> MovingPrices(s)]
SteadyFeed == [s \in FeedSymbols |-> SteadyPrices(s)]

StartupSteps ==
    \/ FetchAndStore("startup", SteadyFeed)
    \/ Fallback("startup")
    \/ StoreAgain("startup")
    \/ Caught("startup")

\* The reward engine: the server starts, then requests arrive.
Next ==
    \/ \E r \in Reqs, input \in RewardInputs : Submit(r, input)
    \/ \E r \in Reqs : CheckDuplicate(r)
    \/ \E r \in Reqs : InsertEvent(r)
    \/ \E r \in Reqs : UpdateHoldings(r)
    \/ \E r \in Reqs : LedgerAndCommit(r)
    \/ StartupSteps
    \/ Tick(ClockPoints)

Spec == Init /\ [][Next]_vars

\* The background jobs, beside one request at a time; u1 is rewarded before
\* u2 is.
NextJobs ==
    \/ \E input \in JobRewardInputs :
          /\ input.userId = "u2" => \E h \in user_holdings : h.user_id = "u1"
          /\ Cardinality(reward_events) < MaxJobEvents
          /\ Submit(1, input)
    \/ CheckDuplicate(1)
    \/ InsertEvent(1)
    \/ UpdateHoldings(1)
    \/ LedgerAndCommit(1)
    \/ HourlyFire
    \/ \E j \in Jobs : FetchAndStore(j, SteadyFeed)
    \/ \E j \in Jobs : Fallback(j)
    \/ \E j \in Jobs : StoreAgain(j)
    \/ \E j \in Jobs : Caught(j)
    \/ DailyFire
    \/ \E k \in Runs : SnapUsers(k)
    \/ \E k \in Runs : SnapRead(k)
    \/ \E k \in Runs : SnapUpsert(k)
    \/ /\ \A k \in Runs : snap[k].pc = "idle"   \* the day changes between runs
       /\ Tick(JobClockPoints)

SpecJobs == Init /\ [][NextJobs]_vars

\* The price jobs and the staleness check.
NextStale ==
    \/ HourlyFire
    \/ \E j \in Jobs : FetchAndStore(j, MovingFeed)
    \/ \E j \in Jobs : Fallback(j)
    \/ \E j \in Jobs : StoreAgain(j)
    \/ \E j \in Jobs : Caught(j)
    \/ SnapUsers("hourly")
    \/ CheckStale
    \/ Tick(StaleClockPoints)

SpecStale == Init /\ [][NextStale]_vars

\* the request bodies tried beside the read routes
ReadRewardInputs ==
    [userId : {"u1"}, stockSymbol : {"RELIANCE", "ITC", "WIPRO"},
     quantity : {1500000}, rewardType : {"onboarding"}, eventTimestamp : {<< >>},
     again : {FALSE}]

\* The read routes, beside one request at a time.
NextReads ==
    \/ \E input \in ReadRewardInputs : Submit(1, input)
    \/ CheckDuplicate(1)
    \/ InsertEvent(1)
    \/ UpdateHoldings(1)
    \/ LedgerAndCommit(1)
    \/ StartupSteps
    \/ \E u \in Users : GetPortfolio(u)
    \/ \E u \in Users : GetStats(u)

SpecReads == Init /\ [][NextReads]_vars

\* the request bodies of a client that repeats what was answered 500
RetryInputs ==
    [userId : {"u1"}, stockSymbol : {"RELIANCE"}, quantity : {1500000, 1},
     rewardType : {"onboarding"}, eventTimestamp : {<<400>>, <<60300>>},
     again : {TRUE}]

\* The reward engine with clients that retry.
NextRetry ==
    \/ \E r \in Reqs, input \in RetryInputs : Submit(r, input)
    \/ \E r \in Reqs : CheckDuplicate(r)
    \/ \E r \in Reqs : InsertEvent(r)
    \/ \E r \in Reqs : UpdateHoldings(r)
    \/ \E r \in Reqs : LedgerAndCommit(r)
    \/ StartupSteps

SpecRetry == Init /\ [][NextRetry]_vars

\* the request bodies tried between the runs of the daily valuation
QuietRewardInputs ==
    [userId : {"u1", "u2"}, stockSymbol : {"RELIANCE", "WIPRO"},
     quantity : {1500000}, rewardType : {"onboarding"}, eventTimestamp : {<< >>},
     again : {FALSE}]
    \cup
    [userId : {"u1"}, stockSymbol : {"ITC"}, quantity : {1},
     rewardType : {"onboarding"}, eventTimestamp : {<< >>}, again : {FALSE}]

\* The daily valuation run with nothing written beside it: requests and the
\* server start take their steps only while no run is under way.
NextQuiet ==
    \/ /\ snap["daily"].pc = "idle"
       /\ \/ \E input \in QuietRewardInputs : Submit(1, input)
          \/ CheckDuplicate(1)
          \/ InsertEvent(1)
          \/ UpdateHoldings(1)
          \/ LedgerAndCommit(1)
          \/ StartupSteps
    \/ DailyFire
    \/ SnapUsers("daily")
    \/ SnapRead("daily")
    \/ SnapUpsert("daily")
    \/ Tick(JobClockPoints)

SpecQuiet == Init /\ [][NextQuiet]_vars

\* the times the clock shows while prices move: two fetches in one second,
\* and one an hour later
LatestClockPoints == {0, 400, OneHourMs}

\* the request bodies tried while prices move
LatestRewardInputs ==
    [userId : {"u1"}, stockSymbol : {"RELIANCE"}, quantity : {1500000},
     rewardType : {"onboarding"}, eventTimestamp : {<< >>}, again : {FALSE}]

\* The readers of the latest price, beside the price jobs and a moving feed:
\* one reward, one read of the portfolio, and the hourly job's valuations.
NextLatest ==
    \/ \E input \in LatestRewardInputs : reward_events = {} /\ Submit(1, input)
    \/ CheckDuplicate(1)
    \/ InsertEvent(1)
    \/ UpdateHoldings(1)
    \/ LedgerAndCommit(1)
    \/ portfolio = NoResponse /\ GetPortfolio("u1")
    \/ HourlyFire
    \/ \E j \in Jobs : FetchAndStore(j, MovingFeed)
    \/ \E j \in Jobs : Fallback(j)
    \/ \E j \in Jobs : StoreAgain(j)
    \/ \E j \in Jobs : Caught(j)
    \/ SnapUsers("hourly")
    \/ SnapRead("hourly")
    \/ SnapUpsert("hourly")
    \/ Tick(LatestClockPoints)

SpecLatest == Init /\ [][NextLatest]_vars

\* the times the clock shows while batches are stored
BatchClockPoints == {0, OneHourMs}

\* The price jobs with storeStockPrices taken statement by statement, beside
\* a reader of the prices.
NextBatch ==
    \/ HourlyFire
    \/ \E j \in Jobs : FetchStockPrices(j, MovingFeed)
    \/ \E j \in Jobs : StoreInsert(j)
    \/ \E j \in Jobs : StoreCommit(j)
    \/ \E j \in Jobs : Fallback(j)
    \/ \E j \in Jobs : StoreBegin(j)
    \/ \E j \in Jobs : Caught(j)
    \/ SnapUsers("hourly")
    \/ CheckStale
    \/ Tick(BatchClockPoints)

SpecBatch == Init /\ [][NextBatch]_vars

----------------------------------------------------------------------------
(* Properties.                                                             *)

RECURSIVE SumQuantity(_)
SumQuantity(events) ==
    IF events = {} THEN 0
    ELSE LET e == CHOOSE x \in events : TRUE
         IN  e.quantity + SumQuantity(events \ {e})

RECURSIVE SumAmount(_)
SumAmount(rows) ==
    IF rows = {} THEN 0
    ELSE LET x == CHOOSE y \in rows : TRUE
         IN  x.amount + SumAmount(rows \ {x})

EventsOf(events, userId, stockSymbol) ==
    {e \in events : e.user_id = userId /\ e.stock_symbol = stockSymbol}

\* the total of (userId, stockSymbol) in user_holdings, 0 without a row
HoldingTotal(holdings, userId, stockSymbol) ==
    IF HoldingRows(holdings, userId, stockSymbol) = {} THEN 0
    ELSE (CHOOSE h \in HoldingRows(holdings, userId, stockSymbol) : TRUE).total_quantity

PostingsOf(ledger, rewardId) == {l \in ledger : l.reward_event_id = rewardId}

SameReward(e, q) ==
    /\ e.user_id = q.userId
    /\ e.stock_symbol = q.stockSymbol
    /\ e.quantity = q.quantity

\* C1: in every reachable state the holdings total of every (user, symbol)
\* pair is the sum of the quantities of the committed reward events of the
\* pair, and there is no row when there is no event.
C1_HoldingsReconcile ==
    \A u \in Users, s \in KnownSymbols :
        /\ Cardinality(HoldingRows(user_holdings, u, s)) <= 1
        /\ HoldingTotal(user_holdings, u, s)
               = SumQuantity(EventsOf(reward_events, u, s))
        /\ EventsOf(reward_events, u, s) = {}
               => HoldingRows(user_holdings, u, s) = {}

\* two rewards of one pair are committed, and a request has failed inside
\* its transaction
C1_Witness ==
    /\ \E u \in Users, s \in KnownSymbols :
          Cardinality(EventsOf(reward_events, u, s)) >= 2
    /\ \E r \in Reqs : req[r].resp = 500 /\ req[r].step = "ledger"

\* C2: the commit is all or nothing: a step that adds no reward event
\* changes neither the postings nor the holdings (so a failed createReward
\* leaves nothing), and a step that adds one adds exactly that event, its
\* postings (the stock_units debit and the cash_outflow credit among them)
\* and its holdings increment, together.
C2_AllOrNothing ==
    [][/\ reward_events' = reward_events
            => ledger_entries' = ledger_entries /\ user_holdings' = user_holdings
       /\ reward_events' # reward_events
            => \E e \in reward_events' \ reward_events :
                 /\ reward_events' = reward_events \cup {e}
                 /\ ledger_entries \subseteq ledger_entries'
                 /\ ledger_entries' \ ledger_entries
                        = PostingsOf(ledger_entries', e.id)
                 /\ \E l \in ledger_entries' \ ledger_entries :
                        l.account_type = "stock_units" /\ l.entry_type = "debit"
                 /\ \E l \in ledger_entries' \ ledger_entries :
                        l.account_type = "cash_outflow" /\ l.entry_type = "credit"
                 /\ HoldingTotal(user_holdings', e.user_id, e.stock_symbol)
                        > HoldingTotal(user_holdings, e.user_id, e.stock_symbol)
                 /\ \A h \in user_holdings :
                        (h.user_id # e.user_id \/ h.stock_symbol # e.stock_symbol)
                            => h \in user_holdings'
       /\ \A r \in Reqs :
            (req[r].pc # "idle" /\ req'[r].pc = "idle" /\ req'[r].resp # 201)
                => /\ reward_events' = reward_events
                   /\ ledger_entries' = ledger_entries
                   /\ user_holdings' = user_holdings]_vars

\* one request has failed after the writes of its transaction, another has
\* committed
C2_Witness ==
    \E r1, r2 \in Reqs :
        /\ req[r1].resp = 500 /\ req[r1].step = "ledger"
        /\ req[r2].resp = 201
        /\ reward_events # {}

C4_AtMostOneCommits ==
    \A e1, e2 \in reward_events :
        \A a1, a2 \in requested :
            (/\ e1.id # e2.id
             /\ a1.id = e1.id
             /\ a2.id = e2.id
             /\ e1.user_id = e2.user_id
             /\ e1.stock_symbol = e2.stock_symbol
             /\ e1.quantity = e2.quantity)
                => ~(/\ IsDuplicate({e1}, e2.user_id, e2.stock_symbol, e2.quantity,
                                    a2.timestamp)
                     /\ IsDuplicate({e2}, e1.user_id, e1.stock_symbol, e1.quantity,
                                    a1.timestamp))

\* C5: no holdings increment is lost: every step changes the total of every
\* (user, symbol) pair by the sum of the quantities of the events the step
\* commits for the pair, also when the transactions of the pair overlap.
C5_NoLostIncrement ==
    [][\A u \in Users, s \in KnownSymbols :
         HoldingTotal(user_holdings', u, s)
             = HoldingTotal(user_holdings, u, s)
                 + SumQuantity(EventsOf(reward_events' \ reward_events, u, s))]_vars

\* two rewards of one pair are committed, the second by a transaction that
\* was waiting for the holdings row when the first committed
C5_Witness ==
    \E a, b \in requested :
        /\ b.id \in a.waiting
        /\ \E e1, e2 \in reward_events :
              /\ e1.id = a.id
              /\ e2.id = b.id
              /\ HoldingTotal(user_holdings, e1.user_id, e1.stock_symbol)
                     = e1.quantity + e2.quantity

CurrencyAccounts ==
    {"cash_outflow", "brokerage_fee", "stt_fee", "gst_fee", "sebi_fee", "other_fee"}

\* C6: for every committed reward event the amounts of its debit postings
\* in currency add up to the amounts of its credit postings in currency.
C6_DebitsEqualCredits ==
    \A e \in reward_events :
        SumAmount({l \in PostingsOf(ledger_entries, e.id) :
                      l.entry_type = "debit" /\ l.account_type \in CurrencyAccounts})
        = SumAmount({l \in PostingsOf(ledger_entries, e.id) :
                      l.entry_type = "credit" /\ l.account_type \in CurrencyAccounts})

\* the postings of a reward of quantity q (millionths) at price p: amounts
\* in ten-thousandths; `units` is the stock_units amount in millionths
ExpectedPostings(rewardId, stockSymbol, q, p) ==
    LET totalValue == Product(q, p)
        brokerage == Times(totalValue, 3, 10000)
    IN  {[account_type |-> "stock_units", stock_symbol |-> stockSymbol,
          entry_type |-> "debit", units |-> q],
         [account_type |-> "cash_outflow", stock_symbol |-> "null",
          entry_type |-> "credit", units |-> ToNumeric4(totalValue) * 100],
         [account_type |-> "brokerage_fee", stock_symbol |-> "null",
          entry_type |-> "credit", units |-> ToNumeric4(brokerage) * 100],
         [account_type |-> "stt_fee", stock_symbol |-> "null",
          entry_type |-> "credit",
          units |-> ToNumeric4(Times(totalValue, 1, 10000)) * 100],
         [account_type |-> "gst_fee", stock_symbol |-> "null",
          entry_type |-> "credit",
          units |-> ToNumeric4(Times(brokerage, 18, 100)) * 100],
         [account_type |-> "sebi_fee", stock_symbol |-> "null",
          entry_type |-> "credit",
          units |-> ToNumeric4(Times(totalValue, 1, 10000)) * 100]}

\* C7: the committed postings of every reward of quantity q at resolved
\* price p are exactly the stock_units debit of q with the symbol, the
\* cash_outflow credit of q * p and the four fee credits, at 4 fractional
\* digits.
C7_PostingSet ==
    \A e \in reward_events, a \in requested :
        a.id = e.id
            => {[account_type |-> l.account_type, stock_symbol |-> l.stock_symbol,
                 entry_type |-> l.entry_type, units |-> l.amount * 100] :
                    l \in PostingsOf(ledger_entries, e.id)}
               = ExpectedPostings(e.id, e.stock_symbol, e.quantity,
                                  IF a.priceRows = << >> THEN 100 * 10000
                                  ELSE a.priceRows[1])

\* C8: a reward never fails for lack of a price: every reward that commits
\* while stock_prices holds no quote of its symbol (the feed has failed or
\* not) commits with the cash_outflow of its quantity at the default price
\* of 100, next to its stock_units debit.
C8_NoPriceStillCommits ==
    [][\A e \in reward_events' \ reward_events :
         (\A p \in stock_prices : p.stock_symbol # e.stock_symbol)
            => /\ \E l \in PostingsOf(ledger_entries', e.id) :
                     /\ l.account_type = "cash_outflow"
                     /\ l.amount * 100 = e.quantity * 100
               /\ \E l \in PostingsOf(ledger_entries', e.id) :
                     l.account_type = "stock_units"]_vars

\* the feed failed at the start, no quote is stored, and a reward committed
C8_Witness ==
    /\ job["startup"].pc = "done"
    /\ stock_prices = {}
    /\ \E a \in requested : a.priceRows = << >>
    /\ \E r \in Reqs : req[r].resp = 201

\* C9: a run of updateHistoricalValuations that writes the valuation of a
\* user and a date leaves exactly one row of that user and date, holding the
\* value the run computed, whether or not an earlier run wrote one; no
\* other row changes, and a row is added only when there was none.
C9_SecondRunOverwrites ==
    [][historical_valuations' # historical_valuations
         => \E k \in Runs :
              /\ snap[k].pc = "upsert"
              /\ snap'[k].pc # "upsert"
              /\ \A x, y \in historical_valuations' :
                    (x.user_id = y.user_id /\ x.valuation_date = y.valuation_date)
                        => x = y
              /\ \E v \in historical_valuations' :
                    /\ v.user_id = snap[k].user
                    /\ v.valuation_date = snap[k].today
                    /\ v.total_inr_value = ToNumeric4(snap[k].totalValue)
              /\ \A v \in historical_valuations :
                    (v.user_id # snap[k].user \/ v.valuation_date # snap[k].today)
                        => v \in historical_valuations'
              /\ Cardinality(historical_valuations')
                    = Cardinality(historical_valuations)
                        + (IF \E v \in historical_valuations :
                                  /\ v.user_id = snap[k].user
                                  /\ v.valuation_date = snap[k].today
                           THEN 0 ELSE 1)]_vars

\* both users hold shares, the runs are over, and each user's row of the
\* day has been written twice
C9_Witness ==
    /\ \A k \in Runs : snap[k].pc = "idle"
    /\ Cardinality(historical_valuations) = Cardinality(Users)
    /\ \A u \in Users :
          \E v \in historical_valuations :
              /\ v.user_id = u
              /\ v.valuation_date = 0
              /\ v.writes = 2
              /\ v.total_inr_value > 0

\* C10: arePricesStale() answers true exactly when stock_prices is empty or
\* its newest quote is more than 60 minutes old: false at 59 minutes, true
\* at 61.
C10_StaleIffOlderThanHour ==
    [][stale' # stale
         => /\ stale'.result
                 = (\/ stock_prices = {}
                    \/ \A p \in stock_prices :
                          now - p.price_timestamp > 60 * 60 * 1000)
            /\ (\E p \in stock_prices :
                   /\ now - p.price_timestamp = 59 * 60 * 1000
                   /\ \A o \in stock_prices : o.price_timestamp <= p.price_timestamp)
                  => ~stale'.result
            /\ (\E p \in stock_prices :
                   /\ now - p.price_timestamp = 61 * 60 * 1000
                   /\ \A o \in stock_prices : o.price_timestamp <= p.price_timestamp)
                  => stale'.result]_vars

\* the newest quote is 61 minutes old and the check has answered true
C10_Witness ==
    /\ stale.called
    /\ stale.result
    /\ stale.at = now
    /\ stock_prices # {}
    /\ \E p \in stock_prices :
          /\ now - p.price_timestamp = 61 * 60 * 1000
          /\ \A o \in stock_prices : o.price_timestamp <= p.price_timestamp

\* quote q is a row of `rows`
Persisted(rows, q) ==
    \E p \in rows : /\ p.stock_symbol = q.symbol
                    /\ p.price = q.price
                    /\ p.price_timestamp = ToTimestamp(q.timestamp)

\* C11 (as stated): whenever the live fetch of getPricesWithFallback
\* succeeds, every fetched quote is persisted and the call returns exactly
\* the fetched quotes.
C11_FetchedPersistedAndReturned ==
    [][\A j \in Jobs :
         (job[j].pc = "fetch" /\ job'[j].pc # "fetch" /\ job'[j].fetched # {})
            => /\ job'[j].pc = "store"
               /\ job'[j].prices = job'[j].fetched
               /\ \A q \in job'[j].fetched :
                     Persisted(stock_prices' \ stock_prices, q)]_vars

\* C11 (amended): whenever the live fetch succeeds, either every fetched
\* quote is persisted as one new row, no other row is added and the call
\* returns exactly the fetched quotes, or the store fails, no row is added
\* and the call goes on to the cached quotes.
C11_FetchedPersistedUnlessStoreFails ==
    [][\A j \in Jobs :
         (job[j].pc = "fetch" /\ job'[j].pc # "fetch" /\ job'[j].fetched # {})
            => \/ /\ job'[j].pc = "store"
                  /\ job'[j].prices = job'[j].fetched
                  /\ \A q \in job'[j].fetched :
                        Persisted(stock_prices' \ stock_prices, q)
                  /\ stock_prices \subseteq stock_prices'
                  /\ Cardinality(stock_prices' \ stock_prices)
                        = Cardinality(job'[j].fetched)
               \/ /\ job'[j].pc = "fallback"
                  /\ stock_prices' = stock_prices]_vars

\* the hourly fetch succeeded at a second price, and its quotes are stored
\* beside the first batch and returned
C11_Witness ==
    /\ job["hourly"].pc = "store"
    /\ job["hourly"].fetched # {}
    /\ job["hourly"].prices = job["hourly"].fetched
    /\ \A q \in job["hourly"].fetched : Persisted(stock_prices, q)
    /\ \E q \in job["hourly"].fetched : q.price = 2400 * CurrencyScale
    /\ Cardinality(stock_prices) > Cardinality(job["hourly"].fetched)

RECURSIVE SumLines(_)
\* the sum of the values of the lines
SumLines(lines) ==
    IF lines = {} THEN Zero
    ELSE LET l == CHOOSE x \in lines : TRUE
         IN  Plus(l.currentInrValue, SumLines(lines \ {l}))

\* C14: the portfolio a read route answers has one line for every holding
\* of the user with quantity > 0, and no other; the line of a symbol without
\* a stored quote has value zero and carries an unpriced flag; a priced line
\* has value = quantity * a latest price; the total is the sum of the values.
C14_PortfolioLines ==
    [][(portfolio' # portfolio /\ portfolio'.status = 200)
         => LET held == PortfolioRows(user_holdings, portfolio'.userId)
                lines == portfolio'.lines
            IN  /\ \A h \in held :
                      Cardinality({l \in lines :
                                      /\ l.stockSymbol = h.stock_symbol
                                      /\ l.quantity = h.total_quantity}) = 1
                /\ Cardinality(lines) = Cardinality(held)
                /\ \A l \in lines :
                      IF LatestQuotes(stock_prices, l.stockSymbol) = {}
                      THEN /\ l.currentInrValue = Zero
                           /\ "unpriced" \in DOMAIN l
                      ELSE \E p \in LatestQuotes(stock_prices, l.stockSymbol) :
                              /\ l.currentPrice = p.price
                              /\ l.currentInrValue = Product(l.quantity, p.price)
                /\ portfolio'.totalValue.value = SumLines(lines)
                /\ \A i \in DOMAIN portfolio'.totalValue.beyond :
                      portfolio'.totalValue.beyond[i] = 0]_vars

\* C15: a reward for a symbol that is not an active row of stock_symbols
\* commits nothing: every committed reward event, holdings row and
\* stock_units posting is of a symbol that stock_symbols has with is_active.
C15_OnlyActiveSymbols ==
    LET active == {x.symbol : x \in {y \in stock_symbols : y.is_active}}
    IN  /\ \A e \in reward_events : e.stock_symbol \in active
        /\ \A h \in user_holdings : h.stock_symbol \in active
        /\ \A l \in ledger_entries :
              l.account_type = "stock_units" => l.stock_symbol \in active

\* C16: a submission answered 400 or 409 has no side effect: it is answered
\* by the validation or the duplicate check, and every step of a request up
\* to that answer leaves reward_events, ledger_entries, user_holdings,
\* stock_prices and historical_valuations as they were.
C16_RejectedLeavesNoTrace ==
    [][\A r \in Reqs :
         /\ (req'[r] # req[r] /\ req'[r].resp \in {400, 409})
               => /\ req[r].pc \in {"idle", "check"}
                  /\ req'[r].pc = "idle"
         /\ (req'[r] # req[r] /\ req[r].pc \in {"idle", "check"})
               => /\ reward_events' = reward_events
                  /\ ledger_entries' = ledger_entries
                  /\ user_holdings' = user_holdings
                  /\ stock_prices' = stock_prices
                  /\ historical_valuations' = historical_valuations]_vars

\* one request was refused by the validation, another as a duplicate of the
\* one committed reward
C16_Witness ==
    /\ req[1].resp = 400
    /\ req[2].resp = 409
    /\ Cardinality(reward_events) = 1
    /\ Cardinality(user_holdings) = 1

\* C17: retrying after a failure is safe.  A submission answered 500 has
\* committed nothing, and every committed reward event is one that was
\* answered 201; so a repeat of the failed request with the same arguments
\* is answered 409 only for a reward that was answered 201, never for the
\* failed attempt, and when the repeat is answered 201 it has added exactly
\* one reward event, its own, and raised the holdings total by its quantity
\* exactly once.
C17_RetryIsSafe ==
    [][/\ \A e \in reward_events : \E a \in requested : a.id = e.id
       /\ \A r \in Reqs :
            /\ (req[r].pc # "idle" /\ req'[r].pc = "idle" /\ req'[r].resp = 500)
                  => /\ reward_events' = reward_events
                     /\ ledger_entries' = ledger_entries
                     /\ user_holdings' = user_holdings
            /\ (req[r].retry /\ req[r].pc = "check" /\ req'[r].pc = "idle"
                             /\ req'[r].resp = 409)
                  => \E e \in reward_events, a \in requested :
                        /\ a.id = e.id
                        /\ e.user_id = req[r].userId
                        /\ e.stock_symbol = req[r].stockSymbol
                        /\ e.quantity = req[r].quantity
            /\ (req[r].retry /\ req[r].pc # "idle" /\ req'[r].pc = "idle"
                             /\ req'[r].resp = 201)
                  => /\ reward_events' = reward_events \cup {EventRow(req[r])}
                     /\ EventRow(req[r]) \notin reward_events
                     /\ \A e \in reward_events : e.id # req[r].rewardId
                     /\ HoldingTotal(user_holdings', req[r].userId,
                                     req[r].stockSymbol)
                           = HoldingTotal(user_holdings, req[r].userId,
                                          req[r].stockSymbol) + req[r].quantity
                     /\ \E a \in requested' \ requested :
                           a.id = req[r].rewardId /\ a.retry]_vars

\* the repeat of a request that was answered 500 has committed: one reward
\* event, and the holdings total is its quantity
C17_Witness ==
    /\ \E a \in requested : a.retry
    /\ Cardinality(reward_events) = 1
    /\ \E e \in reward_events :
          /\ e.quantity = 1500000
          /\ HoldingTotal(user_holdings, e.user_id, e.stock_symbol) = 1500000

FeeAccounts == {"brokerage_fee", "stt_fee", "gst_fee", "sebi_fee"}

\* C18: no committed posting on a fee account has the amount zero.
C18_NoZeroFeePosting ==
    \A l \in ledger_entries : l.account_type \in FeeAccounts => l.amount # 0

C20_SnapshotIsPortfolioTotal ==
    [][\A k \in Runs :
         (/\ snap[k].pc = "upsert"
          /\ snap'[k].pc = "idle"
          /\ snap[k].todo = {snap[k].user}
          /\ historical_valuations' =
                Upserted(historical_valuations, snap[k].user, snap[k].today,
                         snap[k].totalValue))
            => /\ \A u \in Users :
                    (\E h \in user_holdings :
                        h.user_id = u /\ h.total_quantity > 0)
                       => \E v \in historical_valuations',
                             view \in PriceViews(stock_prices) :
                             /\ v.user_id = u
                             /\ v.valuation_date = snap[k].today
                             /\ v.total_inr_value =
                                   ToNumeric4(SumLines(
                                       {Line(h, view) :
                                           h \in PortfolioRows(user_holdings, u)}))
               /\ \A v \in historical_valuations' :
                    \E h \in user_holdings :
                        h.user_id = v.user_id /\ h.total_quantity > 0]_vars

\* a run has completed: u1, holding 1.5 RELIANCE quoted at 2500 and 1.5 of
\* the unquoted WIPRO, is valued at 3750, and u2, holding nothing, has no row
C20_Witness ==
    /\ snap["daily"].pc = "idle"
    /\ \E h \in user_holdings : h.user_id = "u1" /\ h.stock_symbol = "WIPRO"
    /\ \E h \in user_holdings : h.user_id = "u1" /\ h.stock_symbol = "RELIANCE"
    /\ \E v \in historical_valuations :
          v.user_id = "u1" /\ v.total_inr_value = 3750 * CurrencyScale
    /\ \A v \in historical_valuations : v.user_id = "u1"

\* C23: in every reachable state historical_valuations holds at most one row
\* for a user and a date, also while the hourly job's run and the daily run
\* are both under way and take their upserts in turn.
C23_OneRowPerUserAndDate ==
    \A x, y \in historical_valuations :
        (x.user_id = y.user_id /\ x.valuation_date = y.valuation_date) => x = y

\* both runs are at the upsert of the same user and date, whose row one of
\* them wrote in an earlier turn and both write again
C23_Witness ==
    /\ snap["hourly"].pc = "upsert"
    /\ snap["daily"].pc = "upsert"
    /\ snap["hourly"].user = snap["daily"].user
    /\ snap["hourly"].today = snap["daily"].today
    /\ \E v \in historical_valuations :
          /\ v.user_id = snap["daily"].user
          /\ v.valuation_date = snap["daily"].today
    /\ Cardinality(historical_valuations) > 1

\* C24: no step of the system changes or removes a row of stock_prices: the
\* rows after a step include the rows before it.
C24_PricesAppendOnly ==
    [][stock_prices \subseteq stock_prices']_vars

\* a later batch has been stored and the earlier quote of the symbol is
\* still there
C24_Witness ==
    \E p, q \in stock_prices :
        /\ p.stock_symbol = q.stock_symbol
        /\ p.price_timestamp < q.price_timestamp
        /\ p.id < q.id

\* the quotes of a symbol that are its latest: by the time they were
\* observed at, or by the second the price_timestamp column keeps of it
LatestRowsBy(prices, symbol, byObservation) ==
    {p \in prices :
        /\ p.stock_symbol = symbol
        /\ \A o \in prices :
              o.stock_symbol = symbol
                 => IF byObservation THEN o.observed <= p.observed
                    ELSE o.price_timestamp <= p.price_timestamp}

\* the prices a reader may join to the symbols: for each symbol none when it
\* has no quote, else the price of one of its latest quotes
LatestViews(prices, byObservation) ==
    {f \in [KnownSymbols -> {<< >>} \cup {<<p.price>> : p \in prices}] :
        \A s \in KnownSymbols :
            IF LatestRowsBy(prices, s, byObservation) = {}
            THEN f[s] = << >>
            ELSE \E p \in LatestRowsBy(prices, s, byObservation) :
                    f[s] = <<p.price>>}

\* every reader values with the latest quote: the reward that commits (its
\* cash_outflow posting), the portfolio that is returned (each line), the
\* valuation run that reads a user's holdings (its total)
UsesLatest(byObservation) ==
    /\ \A r \in Reqs :
          (req[r].pc = "ledger" /\ req'[r].resp = 201 /\ req'[r].pc = "idle")
             => \E view \in LatestViews(stock_prices, byObservation) :
                   /\ view[req[r].stockSymbol] # << >>
                        => \E l \in ledger_entries' :
                              /\ l.reward_event_id = req[r].rewardId
                              /\ l.account_type = "cash_outflow"
                              /\ l.amount =
                                    ToNumeric4(Product(req[r].quantity,
                                                       view[req[r].stockSymbol][1]))
                   /\ \E e \in requested' \ requested :
                         e.priceRows = view[req[r].stockSymbol]
    /\ (portfolio' # portfolio /\ portfolio'.status = 200)
          => \E view \in LatestViews(stock_prices, byObservation) :
                \A line \in portfolio'.lines :
                    IF view[line.stockSymbol] = << >>
                    THEN line.currentPrice = 0 /\ line.currentInrValue = Zero
                    ELSE /\ line.currentPrice = view[line.stockSymbol][1]
                         /\ line.currentInrValue =
                               Product(line.quantity, view[line.stockSymbol][1])
    /\ \A k \in Runs :
          (snap[k].pc = "read" /\ snap'[k].pc = "upsert")
             => \E view \in LatestViews(stock_prices, byObservation) :
                   snap'[k].totalValue =
                       SumValue({h \in user_holdings :
                                    /\ h.user_id = snap'[k].user
                                    /\ h.total_quantity > 0}, view)

\* C25 (as stated): the price a reward's postings, a portfolio line and a
\* valuation are computed with is that of the symbol's quote of the greatest
\* observation timestamp among the quotes committed when it is read.
C25_LatestByObservation ==
    [][UsesLatest(TRUE)]_vars

\* C25 (amended): the price a reward's postings, a portfolio line and a
\* valuation are computed with is that of a quote of the symbol whose stored
\* observation timestamp, kept to the whole second, is the greatest among
\* the quotes committed when it is read, whether or not it was stored last;
\* of quotes observed within the same second either may be used.
C25_LatestByStoredTimestamp ==
    [][UsesLatest(FALSE)]_vars

\* the quote stored last is an hour older than the symbol's latest and has
\* another price, and the reward, the portfolio and the valuation all used
\* the latest: 1.5 shares at 2500
C25_Witness ==
    /\ \E p, q \in stock_prices :
          /\ p.stock_symbol = "RELIANCE" /\ q.stock_symbol = "RELIANCE"
          /\ p.id < q.id
          /\ p.price_timestamp > q.price_timestamp
          /\ p.price = 2500 * CurrencyScale
          /\ q.price = 2400 * CurrencyScale
          /\ \A o \in stock_prices : o.id <= q.id + 1
    /\ \E l \in ledger_entries :
          l.account_type = "cash_outflow" /\ l.amount = 3750 * CurrencyScale
    /\ portfolio.status = 200
    /\ \E line \in portfolio.lines : line.currentPrice = 2500 * CurrencyScale
    /\ \E v \in historical_valuations : v.total_inr_value = 3750 * CurrencyScale

\* C26: a run that fails is caught by its own handler: the step that
\* follows a failed price step only returns the job to where the scheduler
\* fires it again (the server start goes on to listen), and a valuation run
\* that ends, failed or not, leaves the scheduler free to fire it again;
\* nothing else changes, no other job or run is touched.
C26_FailureIsContained ==
    [][/\ \A j \in Jobs :
            (job[j].pc = "failed" /\ job'[j] # job[j])
               => /\ job'[j] = IF j = "startup" THEN [IdleJob EXCEPT !.pc = "done"]
                                                ELSE IdleJob
                  /\ \A o \in Jobs \ {j} : job'[o] = job[o]
                  /\ UNCHANGED <<rewardVars, stock_prices, historical_valuations,
                                 snap, now>>
       /\ \A k \in Runs :
            (snap[k].pc # "idle" /\ snap'[k].pc = "idle")
               => /\ snap'[k] = IdleRun
                  /\ \A o \in Runs \ {k} : snap'[o] = snap[o]
                  /\ job'["startup"] = job["startup"]
                  /\ job'["hourly"] = IF k = "hourly" THEN IdleJob ELSE job["hourly"]
                  /\ UNCHANGED <<rewardVars, stock_prices, now>>]_vars

\* a tick stored its quotes of day 0 once and failed at its second store;
\* a tick of the next day has run after it and stored its quotes
C26_Witness ==
    /\ now = 24 * OneHourMs
    /\ job["startup"].pc = "done"
    /\ job["hourly"].pc = "snapshot"
    /\ Cardinality({p \in stock_prices :
                       p.stock_symbol = "RELIANCE" /\ p.price_timestamp = 0}) = 1
    /\ Cardinality({p \in stock_prices :
                       p.stock_symbol = "RELIANCE" /\ p.price_timestamp = now}) = 2

\* C27: the hourly tick takes its price steps first and its valuations
\* second: its valuation run starts only in the step that ends the price
\* steps with success, when every quote the tick obtained is a row of
\* stock_prices; the run writes only after that, and no row of stock_prices
\* goes away while it runs.
C27_PricesBeforeValuations ==
    [][/\ (snap["hourly"].pc = "idle" /\ snap'["hourly"].pc # "idle")
            => /\ job["hourly"].pc = "store"
               /\ job'["hourly"].pc = "snapshot"
               /\ job["hourly"].prices # {}
               /\ \A q \in job["hourly"].prices : Persisted(stock_prices', q)
       /\ snap["hourly"].pc # "idle"
            => /\ job["hourly"].pc = "snapshot"
               /\ stock_prices \subseteq stock_prices']_vars

\* the tick of the second day is at the upsert of a valuation computed with
\* the quotes it has just stored
C27_Witness ==
    /\ now = 24 * OneHourMs
    /\ job["hourly"].pc = "snapshot"
    /\ snap["hourly"].pc = "upsert"
    /\ IsPositive(snap["hourly"].totalValue)
    /\ \E p \in stock_prices : p.price_timestamp = now
    /\ \A p, q \in stock_prices :
          p.stock_symbol = q.stock_symbol /\ p.id < q.id
             => p.price_timestamp < q.price_timestamp \/ q.id = p.id + 2

\* C28: a tick, or the server start, whose live fetch succeeds stores one
\* row for each fetched symbol: once getPricesWithFallback has stored the
\* fetched quotes, the rest of the tick adds no row to stock_prices.
C28_OneRowPerFetchedSymbol ==
    [][\A j \in Jobs :
         (job[j].pc = "store" /\ job[j].fetched # {} /\ job'[j] # job[j])
            => stock_prices' = stock_prices]_vars

\* C29: a tick whose live fetch fails and which falls back to the stored
\* quotes adds no row: no step of the tick, from the fallback on, changes
\* stock_prices.
C29_FallbackStoresNothing ==
    [][\A j \in Jobs :
         (/\ \/ job[j].pc = "fallback"
             \/ job[j].pc = "store" /\ job[j].fetched = {}
          /\ job'[j] # job[j])
            => stock_prices' = stock_prices]_vars

\* C30: when the price step of the hourly tick has failed, the tick's
\* valuation run does not start: until the handler returns its run stays
\* idle, historical_valuations changes only by an upsert of the daily run,
\* and the handler's return changes no row.
C30_FailedTickWritesNoValuation ==
    [][job["hourly"].pc = "failed"
         => /\ snap["hourly"].pc = "idle"
            /\ snap'["hourly"].pc = "idle"
            /\ historical_valuations' # historical_valuations
                 => snap["daily"].pc = "upsert" /\ job' = job
            /\ job'["hourly"] # job["hourly"]
                 => /\ job'["hourly"] = IdleJob
                    /\ historical_valuations' = historical_valuations]_vars

\* the second store of the tick has failed while users hold shares and
\* valuations of theirs are stored
C30_Witness ==
    /\ job["hourly"].pc = "failed"
    /\ job["hourly"].error = "query failed"
    /\ UsersWithHoldings(user_holdings) # {}
    /\ historical_valuations # {}

\* C21: a batch of storeStockPrices becomes visible as a whole or not at
\* all: stock_prices, what a reader on another connection sees, changes only
\* by the commit of a transaction that has inserted every quote of its
\* batch, and then by exactly one row for each of them; when an INSERT or
\* the commit fails, stock_prices is as before and nothing of the batch
\* remains; so at every moment each symbol of the feed has as many rows of a
\* given observation time as every other.
C21_BatchIsAtomic ==
    [][/\ stock_prices' # stock_prices
            => \E j \in Jobs :
                  /\ job[j].pc \in {"insert", "insert2"}
                  /\ job[j].left = {}
                  /\ job[j].tx = job[j].prices
                  /\ stock_prices \subseteq stock_prices'
                  /\ Cardinality(stock_prices' \ stock_prices)
                        = Cardinality(job[j].prices)
                  /\ \A q \in job[j].prices :
                        Persisted(stock_prices' \ stock_prices, q)
       /\ \A j \in Jobs :
            (/\ job[j].pc \in {"insert", "insert2"}
             /\ job'[j].pc \in {"fallback", "failed"})
               => /\ stock_prices' = stock_prices
                  /\ job'[j].tx = {}
                  /\ job'[j].left = {}
       /\ \A s, t \in FeedSymbols :
            \A p \in stock_prices :
               Cardinality({o \in stock_prices :
                               /\ o.stock_symbol = s
                               /\ o.price_timestamp = p.price_timestamp})
                  = Cardinality({o \in stock_prices :
                                    /\ o.stock_symbol = t
                                    /\ o.price_timestamp = p.price_timestamp})]_vars

\* an hour after the first batch was stored, the hourly job has inserted
\* one quote of its batch and not yet the other, and no row of that hour is
\* visible; the server start's batch failed at a statement and left nothing
C21_Witness ==
    /\ now = OneHourMs
    /\ job["hourly"].pc = "insert"
    /\ job["hourly"].tx # {}
    /\ job["hourly"].left # {}
    /\ \A q \in job["hourly"].tx : q.timestamp = now
    /\ stock_prices # {}
    /\ \A p \in stock_prices : p.price_timestamp = 0
    /\ job["startup"].pc = "fallback"
    /\ job["startup"].fetched # {}

C31_RunWritesOnlyItsDate ==
    [][\A k \in Runs :
         (snap[k].pc # "idle" /\ snap'[k] # snap[k])
            => /\ reward_events' = reward_events
               /\ ledger_entries' = ledger_entries
               /\ user_holdings' = user_holdings
               /\ stock_prices' = stock_prices
               /\ \A v \in historical_valuations :
                     v.valuation_date # snap[k].today
                        => v \in historical_valuations'
               /\ \A v \in historical_valuations' \ historical_valuations :
                     v.valuation_date = snap[k].today]_vars

\* a run of the second day has written a user's valuation, and the user's
\* row of the first day, of another value, is still there
C31_Witness ==
    \E v, w \in historical_valuations :
        /\ v.user_id = w.user_id
        /\ v.valuation_date = 0
        /\ w.valuation_date = 1
        /\ v.total_inr_value # w.total_inr_value
        /\ now = 24 * OneHourMs
====
